---- MODULE Spec2Model ----
(***************************************************************************)
(* SmartThings Energy Fix: the accumulating energy sensor, its polling     *)
(* coordinator, the report extractor and the single-instance config flow.  *)
(*                                                                         *)
(* Encoding.                                                               *)
(*  - A Python value that may be None is an option: None == <<>> and       *)
(*    Some(x) == <<x>>.                                                    *)
(*  - A powerConsumption report is a function from the keys it contains    *)
(*    to their values; {} is the function with the empty domain.           *)
(*  - A value of a numeric field is Num(n) when isinstance(v, (int,float)) *)
(*    holds and NonNum otherwise (a string, null, a list).                 *)
(*  - Energies are counted in fifths of a watt-hour, so that fractional    *)
(*    deltaEnergy values occur and round(wh / 1000, 3) is not the          *)
(*    identity, while no value lies exactly half way between two           *)
(*    thousandths of a kWh.  Published values are in thousandths of a kWh. *)
(***************************************************************************)
EXTENDS Integers, Sequences, FiniteSets, TLC

VARIABLES
    runtime,      \* st_entry.runtime_data as the provider currently exposes it
    snapshot,     \* per device: the provider's current FullDevice snapshot
    owned,        \* the devices the SmartThings account can expose
    setup,        \* position of async_setup_entry
    pc,           \* per device: how far async_setup_entry got with it
    data,         \* per device: coordinator.data
    pending,      \* per device: a refresh was published and listeners not yet run
    accumulated_wh,   \* per device: AccumulatingEnergySensor._accumulated_wh
    last_report_end,  \* per device: AccumulatingEnergySensor._last_report_end
    value,        \* per device: what native_value returned last
    lastNum,      \* per device: the last number native_value returned
    seenReport,   \* per device: native_value has observed a non-empty report
    same,         \* per device: coordinator.data is identical to the report last observed
    appliedSeq,   \* per device: end tokens of the reports added, in order
    scenario,     \* whether the observations are logged (and then bounded)
    inputs,       \* the snapshots the provider moves a device to
    pubNew,       \* per device: the report published last had, when published, an
                  \* end token other than last_report_end and a deltaEnergy above zero
    pubAdds,      \* per device: additions to accumulated_wh since the last refresh
    attrs,        \* per device: what extra_state_attributes returned since the last refresh
    obsLog,       \* per device: each read of native_value: report, total, return
    lastOp,       \* the operation that led to this state, with the state it read
    flows,        \* per config flow: the result of its last step
    entries       \* number of config entries of this integration

vars == <<runtime, snapshot, owned, setup, pc, data, pending, accumulated_wh,
          last_report_end, value, lastNum, seenReport, same, appliedSeq,
          scenario, inputs, pubNew, pubAdds, attrs, obsLog, lastOp,
          flows, entries>>

sensorVars == <<runtime, snapshot, owned, setup, pc, data, pending, accumulated_wh,
                last_report_end, value, lastNum, seenReport, same, appliedSeq,
                scenario, inputs, pubNew, pubAdds, attrs, obsLog>>

\* What only a refresh and a read of the sensor change.
pubVars == <<pubNew, pubAdds, attrs>>

flowVars == <<flows, entries>>

----------------------------------------------------------------------------
(* Bounds. *)

\* native_value no longer adds once this many reports were added to one sensor.
MaxApplied == 3

\* Number of config flows that can be started.
MaxFlows == 4

\* Number of reads of native_value a logged run makes per sensor.
MaxObs == 3

----------------------------------------------------------------------------
(* Values. *)

None == <<>>
Some(x) == <<x>>

Num(n) == [num |-> TRUE, v |-> n]
NonNum == [num |-> FALSE, v |-> 0]

\* n watt-hours, in fifths of a watt-hour.
Wh(n) == 5 * n

EmptyDict == [k \in {} |-> 0]

Devices == {"d1", "d2"}

Field(k, opt) == IF opt = None THEN EmptyDict ELSE (k :> opt[1])

\* A report dict with the given optional energy, deltaEnergy and end; a report
\* with an end carries a start too.
Rep(energy, delta, end) ==
    Field("energy", energy) @@ Field("deltaEnergy", delta) @@ Field("end", end)
        @@ (IF end = None THEN EmptyDict ELSE ("start" :> "s"))

DeltaInputs ==
    {None, Some(NonNum), Some(Num(0)), Some(Num(-5)),
     Some(Num(3)), Some(Num(Wh(50))), Some(Num(Wh(100)))}

EnergyInputs == {None, Some(NonNum), Some(Num(0)), Some(Num(Wh(120)))}

EndInputs == {None, Some(""), Some("t1"), Some("t2")}

\* The report dicts a device can hold when the integration is set up.
Reports ==
    { Rep(en, dl, Some("t1")) : en \in EnergyInputs, dl \in DeltaInputs }
    \cup { "power" :> Num(7), EmptyDict }

\* The report dicts the provider moves a device to later on.
LiveReports ==
    { Rep(Some(Num(0)), Some(Num(Wh(100))), Some("t1")),
      Rep(Some(Num(0)), Some(Num(Wh(50))), Some("t2")),
      Rep(Some(Num(0)), Some(Num(3)), Some("t1")),
      Rep(Some(Num(0)), Some(Num(3)), Some("t2")),
      Rep(Some(Num(Wh(120))), Some(Num(Wh(50))), Some("t1")) }
    \cup { Rep(Some(Num(0)), dl, Some("t2")) :
             dl \in {None, Some(NonNum), Some(Num(0)), Some(Num(-5))} }
    \cup { Rep(Some(Num(0)), Some(Num(Wh(50))), en) : en \in {None, Some("")} }
    \cup { "power" :> Num(7), EmptyDict }

\* What the provider's devices dict holds for a device id.
\*   gone      : no such key
\*   raises    : a snapshot on which a lookup raises
\*   no_attr   : the capability or attribute is missing (attr is None)
\*   null      : attr.value is None
\*   nondict   : attr.value is something that is not a dict
\*   report    : attr.value is the dict `value`
Snap(kind) == [kind |-> kind, value |-> EmptyDict]

Snapshots ==
    { Snap(k) : k \in {"gone", "raises", "no_attr", "null", "nondict"} }
    \cup { [kind |-> "report", value |-> r] : r \in Reports }

LiveSnapshots ==
    { Snap(k) : k \in {"gone", "raises", "nondict"} }
    \cup { [kind |-> "report", value |-> r] : r \in LiveReports }

\* The snapshots of a logged run.
ScenarioSnapshots ==
    { Snap("gone") }
    \cup { [kind |-> "report", value |-> r] :
              r \in { Rep(Some(Num(0)), Some(Num(Wh(100))), Some("t1")),
                      Rep(Some(Num(0)), Some(Num(Wh(50))), Some("t2")),
                      Rep(Some(Num(0)), Some(Num(3)), Some("t1")),
                      Rep(Some(Num(0)), Some(Num(0)), Some("t2")),
                      Rep(Some(Num(0)), Some(Num(Wh(50))), None) } }

\* The snapshots of each device of a run with two devices.
PairSnapshots ==
    { Snap("gone") }
    \cup { [kind |-> "report", value |-> r] :
              r \in { Rep(Some(Num(0)), Some(Num(Wh(100))), Some("t1")),
                      Rep(Some(Num(0)), Some(Num(Wh(50))), Some("t2")) } }

\* The snapshots of a run in which two windows follow an outage.
WindowSnapshots ==
    { Snap("gone") }
    \cup { [kind |-> "report", value |-> r] :
              r \in { Rep(Some(Num(0)), Some(Num(Wh(100))), Some("t1")),
                      Rep(Some(Num(0)), Some(Num(Wh(50))), Some("t2")),
                      Rep(Some(Num(0)), Some(Num(0)), Some("t2")) } }

----------------------------------------------------------------------------
(* sensor.py: the report extractor. *)

\* _get_power_consumption: None, or attr.value whatever it is.
GetPowerConsumption(snap) ==
    IF snap.kind \in {"report", "nondict"} THEN Some(snap) ELSE None

IsDict(res) == res # None /\ res[1].kind = "report"

\* As _needs_delta_fix, were it to ask for a deltaEnergy above zero.
NeedsDeltaFix_PositiveDelta(report) ==
    LET energy == IF "energy" \in DOMAIN report THEN report["energy"] ELSE Num(0)
    IN  /\ ~energy.num \/ energy.v = 0
        /\ "deltaEnergy" \in DOMAIN report
        /\ report["deltaEnergy"].num /\ report["deltaEnergy"].v > 0

\* _needs_delta_fix
NeedsDeltaFix(report) ==
    LET energy == IF "energy" \in DOMAIN report THEN report["energy"] ELSE Num(0)
    IN  (~energy.num \/ energy.v = 0) /\ "deltaEnergy" \in DOMAIN report

----------------------------------------------------------------------------
(* sensor.py: SmartThingsEnergyCoordinator._async_update_data. *)

UpdateData(rt, snap) ==
    IF rt = "none" THEN EmptyDict
    ELSE IF rt # "ok" THEN EmptyDict
    ELSE IF snap.kind = "gone" THEN EmptyDict
    ELSE LET report == GetPowerConsumption(snap)
         IN  IF IsDict(report) THEN report[1].value ELSE EmptyDict

----------------------------------------------------------------------------
(* sensor.py: AccumulatingEnergySensor.native_value. *)

\* not isinstance(report, dict) or not report
IsEmptyReport(report) == report = None \/ DOMAIN report[1] = {}

\* report.get("deltaEnergy", 0), coerced to 0 when it is not a number
DeltaEnergy(report) ==
    LET delta_energy == IF "deltaEnergy" \in DOMAIN report
                        THEN report["deltaEnergy"] ELSE Num(0)
    IN  IF delta_energy.num THEN delta_energy.v ELSE 0

\* report.get("end")
EndOf(report) == IF "end" \in DOMAIN report THEN Some(report["end"]) ELSE None

Truthy(end) == end # None /\ end[1] # ""

\* As line 184, were it to ask _needs_delta_fix of every report it reads.
ShouldAccumulate_Gated(report, last) ==
    /\ Truthy(EndOf(report))
    /\ EndOf(report) # last
    /\ DeltaEnergy(report) > 0
    /\ NeedsDeltaFix(report)

\* As line 184 with delta_energy != 0.
ShouldAccumulate_NonZero(report, last) ==
    /\ Truthy(EndOf(report))
    /\ EndOf(report) # last
    /\ DeltaEnergy(report) # 0

\* As line 184 with delta_energy >= 0.
ShouldAccumulate_NotNegative(report, last) ==
    /\ Truthy(EndOf(report))
    /\ EndOf(report) # last
    /\ DeltaEnergy(report) >= 0

\* As line 184 without the comparison to _last_report_end.
ShouldAccumulate_NoDedup(report, last) ==
    /\ Truthy(EndOf(report))
    /\ DeltaEnergy(report) > 0

\* end and end != self._last_report_end and delta_energy > 0
ShouldAccumulate(report, last) ==
    /\ Truthy(EndOf(report))
    /\ EndOf(report) # last
    /\ DeltaEnergy(report) > 0

\* As round(wh / 1000, 3), were it to truncate.
Round3Kwh_Truncate(wh) == wh \div 5

\* round(wh / 1000, 3), in thousandths of a kWh
Round3Kwh(wh) == (wh + 2) \div 5

\* As line 188 with None in place of 0.0.
ReportedValue_NoneAtZero(wh) == IF wh > 0 THEN Some(Round3Kwh(wh)) ELSE None

\* the return at the end of native_value
ReportedValue(wh) == IF wh > 0 THEN Some(Round3Kwh(wh)) ELSE Some(0)

\* As lines 174-176 without the fallback to the total.
FallbackValue_AlwaysNone(wh) == None

\* the return of native_value when coordinator.data is empty
FallbackValue(wh) == IF wh > 0 THEN Some(Round3Kwh(wh)) ELSE None

----------------------------------------------------------------------------
(* sensor.py: AccumulatingEnergySensor.extra_state_attributes. *)

\* report.get(key)
Get(report, k) == IF k \in DOMAIN report THEN Some(report[k]) ELSE None

\* As line 201, were the attribute given in kWh as the state is.
Round3Wh_AsKwh(wh) == Round3Kwh(wh)

\* round(self._accumulated_wh, 3), in thousandths of a watt-hour
Round3Wh(wh) == 200 * wh

\* The dict returned, or None when coordinator.data is empty.
ExtraStateAttributes(report, wh) ==
    IF IsEmptyReport(report) THEN None
    ELSE Some([source |-> "deltaEnergy",
               last_delta_wh |-> Get(report[1], "deltaEnergy"),
               report_start |-> Get(report[1], "start"),
               report_end |-> Get(report[1], "end"),
               accumulated_wh |-> Round3Wh(wh)])

----------------------------------------------------------------------------
(* Words of the properties, used by the history variables too. *)

\* The report's deltaEnergy is a number above zero.
PositiveDelta(r) ==
    "deltaEnergy" \in DOMAIN r /\ r["deltaEnergy"].num /\ r["deltaEnergy"].v > 0

\* The report's deltaEnergy is absent, not a number, or zero.
NoDelta(r) ==
    "deltaEnergy" \notin DOMAIN r \/ ~r["deltaEnergy"].num \/ r["deltaEnergy"].v = 0

\* The report has an end token.
HasEnd(r) == "end" \in DOMAIN r /\ r["end"] # ""

\* The report, were it read with `last` as last_report_end, is one to add: it
\* has an end token other than `last` and a deltaEnergy above zero.
NewWindow(r, last) == HasEnd(r) /\ Some(r["end"]) # last /\ PositiveDelta(r)

----------------------------------------------------------------------------
(* The operation that led to the current state. *)

\* acc, lre, val, num, same, had: accumulated_wh, last_report_end, value,
\* lastNum, same and seenReport (for a tick: a non-empty coordinator.data) as
\* the operation found them; new, adds: pubNew and pubAdds as a tick found
\* them; entries: the config entries a flow step found.
NoPre ==
    [acc |-> 0, lre |-> None, val |-> None, num |-> None, same |-> FALSE,
     had |-> FALSE, new |-> FALSE, adds |-> 0, entries |-> 0]

Op(name, d, pre) == [op |-> name, dev |-> d, pre |-> pre]

----------------------------------------------------------------------------
(* The provider (the SmartThings integration), outside this repository. *)

ProviderRuntime(rt) ==
    /\ rt \in {"none", "nodict", "ok"}
    /\ rt # runtime
    /\ runtime # "absent"
    /\ runtime' = rt
    /\ lastOp' = Op("ProviderRuntime", "d1", NoPre)
    /\ UNCHANGED <<snapshot, owned, setup, pc, data, pending, accumulated_wh,
                   last_report_end, value, lastNum, seenReport, same, appliedSeq,
                   scenario, inputs, pubVars, obsLog, flowVars>>

ProviderDevice(d, snap) ==
    /\ d \in owned
    /\ snap \in inputs
    /\ snap # snapshot[d]
    /\ snapshot' = [snapshot EXCEPT ![d] = snap]
    /\ lastOp' = Op("ProviderDevice", d, NoPre)
    /\ UNCHANGED <<runtime, owned, setup, pc, data, pending, accumulated_wh,
                   last_report_end, value, lastNum, seenReport, same, appliedSeq,
                   scenario, inputs, pubVars, obsLog, flowVars>>

----------------------------------------------------------------------------
(* sensor.py: async_setup_entry. *)

\* Lines 66-81: no SmartThings entry, or one without a devices dict, gives no
\* sensors; otherwise the devices dict is iterated.
SetupBegin ==
    /\ setup = "idle"
    /\ setup' = IF runtime = "ok" THEN "loop" ELSE "done"
    /\ lastOp' = Op("SetupBegin", "d1", NoPre)
    /\ UNCHANGED <<runtime, snapshot, owned, pc, data, pending, accumulated_wh,
                   last_report_end, value, lastNum, seenReport, same, appliedSeq,
                   scenario, inputs, pubVars, obsLog, flowVars>>

\* Lines 83-105: one iteration of the loop over devices.items(), up to the
\* creation of the coordinator.  _needs_delta_fix raises on a value that is
\* not a dict, and nothing in async_setup_entry catches it.
SetupDevice(d) ==
    /\ setup = "loop"
    /\ pc[d] = "pending"
    /\ \A o \in Devices : pc[o] # "refresh"
    /\ LET report == GetPowerConsumption(snapshot[d])
       IN  IF snapshot[d].kind = "gone" \/ report = None
           THEN pc' = [pc EXCEPT ![d] = "skipped"] /\ setup' = setup
           ELSE IF ~IsDict(report)
           THEN pc' = pc /\ setup' = "failed"
           ELSE IF ~NeedsDeltaFix(report[1].value)
           THEN pc' = [pc EXCEPT ![d] = "skipped"] /\ setup' = setup
           ELSE pc' = [pc EXCEPT ![d] = "refresh"] /\ setup' = setup
    /\ lastOp' = Op("SetupDevice", d, NoPre)
    /\ UNCHANGED <<runtime, snapshot, owned, data, pending, accumulated_wh,
                   last_report_end, value, lastNum, seenReport, same, appliedSeq,
                   scenario, inputs, pubVars, obsLog, flowVars>>

\* As Assign, were the attribute the class's and not the instance's.
Assign_ClassAttribute(attr, d, v) == [o \in DOMAIN attr |-> v]

\* self.<attr> = v on the sensor of device d.
Assign(attr, d, v) == [attr EXCEPT ![d] = v]

\* As FirstRefresh, were line 106 left out: the sensor is constructed on a
\* coordinator that has not refreshed.
FirstRefresh_NoAwait(d) ==
    /\ pc[d] = "refresh"
    /\ data' = data
    /\ accumulated_wh' = Assign(accumulated_wh, d, 0)
    /\ last_report_end' = Assign(last_report_end, d, None)
    /\ pc' = [pc EXCEPT ![d] = "created"]
    /\ pending' = [pending EXCEPT ![d] = TRUE]
    /\ pubNew' = [pubNew EXCEPT ![d] = FALSE]
    /\ pubAdds' = [pubAdds EXCEPT ![d] = 0]
    /\ lastOp' = Op("FirstRefresh", d, NoPre)
    /\ UNCHANGED <<runtime, snapshot, owned, setup, value, lastNum, seenReport,
                   same, appliedSeq, scenario, inputs, attrs, obsLog, flowVars>>

\* Lines 106-107: the awaited first refresh, then the sensor's construction.
FirstRefresh(d) ==
    /\ pc[d] = "refresh"
    /\ data' = [data EXCEPT ![d] = Some(UpdateData(runtime, snapshot[d]))]
    /\ accumulated_wh' = Assign(accumulated_wh, d, 0)
    /\ last_report_end' = Assign(last_report_end, d, None)
    /\ pc' = [pc EXCEPT ![d] = "created"]
    /\ pending' = [pending EXCEPT ![d] = TRUE]
    /\ pubNew' = [pubNew EXCEPT ![d] = NewWindow(data'[d][1], None)]
    /\ pubAdds' = [pubAdds EXCEPT ![d] = 0]
    /\ lastOp' = Op("FirstRefresh", d, NoPre)
    /\ UNCHANGED <<runtime, snapshot, owned, setup, value, lastNum, seenReport,
                   same, appliedSeq, scenario, inputs, attrs, obsLog, flowVars>>

\* Line 109: async_add_entities(entities).
SetupFinish ==
    /\ setup = "loop"
    /\ \A d \in Devices : pc[d] \in {"skipped", "created"}
    /\ pc' = [d \in Devices |-> IF pc[d] = "created" THEN "added" ELSE pc[d]]
    /\ setup' = "done"
    /\ lastOp' = Op("SetupFinish", "d1", NoPre)
    /\ UNCHANGED <<runtime, snapshot, owned, data, pending, accumulated_wh,
                   last_report_end, value, lastNum, seenReport, same, appliedSeq,
                   scenario, inputs, pubVars, obsLog, flowVars>>

----------------------------------------------------------------------------
(* The coordinator's poll tick and the sensor's read of native_value. *)

\* As Tick, were an empty result to leave coordinator.data as it was.
Tick_KeepsCache(d) ==
    /\ pc[d] = "added"
    /\ ~pending[d]
    /\ LET new == UpdateData(runtime, snapshot[d])
       IN  data' = [data EXCEPT ![d] = IF new = EmptyDict THEN data[d] ELSE Some(new)]
    /\ pending' = [pending EXCEPT ![d] = TRUE]
    /\ same' = [same EXCEPT ![d] = same[d] /\ data'[d] = data[d]]
    /\ pubNew' = [pubNew EXCEPT ![d] = NewWindow(data'[d][1], last_report_end[d])]
    /\ pubAdds' = [pubAdds EXCEPT ![d] = 0]
    /\ attrs' = [attrs EXCEPT ![d] = None]
    /\ lastOp' = Op("Tick", d, [NoPre EXCEPT !.had = ~IsEmptyReport(data[d]),
                                             !.new = pubNew[d],
                                             !.adds = pubAdds[d]])
    /\ UNCHANGED <<runtime, snapshot, owned, setup, pc, accumulated_wh,
                   last_report_end, value, lastNum, seenReport, appliedSeq,
                   scenario, inputs, obsLog, flowVars>>

\* As Tick, were a coordinator that has published {} to ask the provider no more.
Tick_KeepsEmpty(d) ==
    /\ pc[d] = "added"
    /\ ~pending[d]
    /\ data' = [data EXCEPT ![d] =
                   IF IsEmptyReport(data[d]) THEN data[d]
                   ELSE Some(UpdateData(runtime, snapshot[d]))]
    /\ pending' = [pending EXCEPT ![d] = TRUE]
    /\ same' = [same EXCEPT ![d] = same[d] /\ data'[d] = data[d]]
    /\ pubNew' = [pubNew EXCEPT ![d] = NewWindow(data'[d][1], last_report_end[d])]
    /\ pubAdds' = [pubAdds EXCEPT ![d] = 0]
    /\ attrs' = [attrs EXCEPT ![d] = None]
    /\ lastOp' = Op("Tick", d, [NoPre EXCEPT !.had = ~IsEmptyReport(data[d]),
                                             !.new = pubNew[d],
                                             !.adds = pubAdds[d]])
    /\ UNCHANGED <<runtime, snapshot, owned, setup, pc, accumulated_wh,
                   last_report_end, value, lastNum, seenReport, appliedSeq,
                   scenario, inputs, obsLog, flowVars>>

\* One scheduled refresh: coordinator.data becomes what _async_update_data
\* returns.  The next one is scheduled after the listeners have run.
Tick(d) ==
    /\ pc[d] = "added"
    /\ ~pending[d]
    /\ data' = [data EXCEPT ![d] = Some(UpdateData(runtime, snapshot[d]))]
    /\ pending' = [pending EXCEPT ![d] = TRUE]
    /\ same' = [same EXCEPT ![d] = same[d] /\ data'[d] = data[d]]
    /\ pubNew' = [pubNew EXCEPT ![d] = NewWindow(data'[d][1], last_report_end[d])]
    /\ pubAdds' = [pubAdds EXCEPT ![d] = 0]
    /\ attrs' = [attrs EXCEPT ![d] = None]
    /\ lastOp' = Op("Tick", d, [NoPre EXCEPT !.had = ~IsEmptyReport(data[d]),
                                             !.new = pubNew[d],
                                             !.adds = pubAdds[d]])
    /\ UNCHANGED <<runtime, snapshot, owned, setup, pc, accumulated_wh,
                   last_report_end, value, lastNum, seenReport, appliedSeq,
                   scenario, inputs, obsLog, flowVars>>

\* As lines 184-186 without the assignment to _last_report_end.
Accumulate_KeepsLast(report, wh, last) ==
    IF ~IsEmptyReport(report) /\ ShouldAccumulate(report[1], last)
    THEN <<wh + DeltaEnergy(report[1]), last>>
    ELSE <<wh, last>>

\* What native_value does to (_accumulated_wh, _last_report_end) on `report`.
Accumulate(report, wh, last) ==
    IF ~IsEmptyReport(report) /\ ShouldAccumulate(report[1], last)
    THEN <<wh + DeltaEnergy(report[1]), EndOf(report[1])>>
    ELSE <<wh, last>>

\* What native_value returns, given the total after its update.
NativeValue(report, wh) ==
    IF IsEmptyReport(report) THEN FallbackValue(wh) ELSE ReportedValue(wh)

\* One read of native_value.
Observe(d) ==
    /\ pc[d] = "added"
    /\ LET report == data[d]
           next == Accumulate(report, accumulated_wh[d], last_report_end[d])
           added == next[1] # accumulated_wh[d]
           ret == NativeValue(report, next[1])
       IN  /\ added => Len(appliedSeq[d]) < MaxApplied
           /\ scenario => Len(obsLog[d]) < MaxObs
           /\ obsLog' = [obsLog EXCEPT ![d] =
                            IF scenario
                            THEN Append(obsLog[d], [report |-> report, wh |-> next[1],
                                                    ret |-> ret])
                            ELSE obsLog[d]]
           /\ accumulated_wh' = Assign(accumulated_wh, d, next[1])
           /\ last_report_end' = Assign(last_report_end, d, next[2])
           /\ pubAdds' = [pubAdds EXCEPT ![d] = pubAdds[d] + (IF added THEN 1 ELSE 0)]
           /\ value' = [value EXCEPT ![d] = ret]
           /\ lastNum' = [lastNum EXCEPT ![d] = IF ret = None THEN lastNum[d] ELSE ret]
           /\ seenReport' = [seenReport EXCEPT ![d] = seenReport[d] \/ ~IsEmptyReport(report)]
           /\ appliedSeq' = [appliedSeq EXCEPT ![d] =
                                IF added THEN Append(appliedSeq[d], EndOf(report[1])[1])
                                ELSE appliedSeq[d]]
    /\ same' = [same EXCEPT ![d] = TRUE]
    /\ pending' = [pending EXCEPT ![d] = FALSE]
    /\ lastOp' = Op("Observe", d,
                    [NoPre EXCEPT !.acc = accumulated_wh[d],
                                  !.lre = last_report_end[d],
                                  !.val = value[d], !.num = lastNum[d],
                                  !.same = same[d], !.had = seenReport[d]])
    /\ UNCHANGED <<runtime, snapshot, owned, setup, pc, data, scenario, inputs,
                   pubNew, attrs, flowVars>>

\* One read of extra_state_attributes.
ReadAttributes(d) ==
    /\ pc[d] = "added"
    /\ attrs' = [attrs EXCEPT ![d] =
                    Some(ExtraStateAttributes(data[d], accumulated_wh[d]))]
    /\ lastOp' = Op("Attributes", d,
                    [NoPre EXCEPT !.acc = accumulated_wh[d],
                                  !.lre = last_report_end[d]])
    /\ UNCHANGED <<runtime, snapshot, owned, setup, pc, data, pending,
                   accumulated_wh, last_report_end, value, lastNum, seenReport,
                   same, appliedSeq, scenario, inputs, pubNew, pubAdds,
                   obsLog, flowVars>>

----------------------------------------------------------------------------
(* config_flow.py: SmartThingsEnergyConfigFlow.async_step_user. *)

Flows == 1..MaxFlows

\* async_step_user(None): the form is shown.
StepUserForm(f) ==
    /\ flows[f] = "idle"
    /\ flows' = [flows EXCEPT ![f] = "form"]
    /\ lastOp' = Op("StepUserForm", f, NoPre)
    /\ UNCHANGED <<entries, sensorVars>>

\* As line 18 left out: nothing is ever found configured.
UniqueIdConfigured_Never(n) == FALSE

\* _abort_if_unique_id_configured: an entry with this unique id exists.
UniqueIdConfigured(n) == n > 0

\* async_step_user(user_input): the unique id is DOMAIN; abort when it is
\* configured, otherwise create the entry.
StepUserSubmit(f) ==
    /\ flows[f] \in {"idle", "form"}
    /\ IF UniqueIdConfigured(entries)
       THEN flows' = [flows EXCEPT ![f] = "abort"] /\ entries' = entries
       ELSE flows' = [flows EXCEPT ![f] = "create_entry"] /\ entries' = entries + 1
    /\ lastOp' = Op("StepUserSubmit", f, [NoPre EXCEPT !.entries = entries])
    /\ UNCHANGED sensorVars

----------------------------------------------------------------------------
(* Specifications. *)

\* The state before async_setup_entry runs, once owned, scenario and inputs
\* are given.
InitSensor ==
    /\ runtime \in {"absent", "none", "nodict", "ok"}
    /\ snapshot \in [Devices -> IF inputs = LiveSnapshots THEN Snapshots ELSE inputs]
    /\ \A d \in Devices : d \notin owned => snapshot[d] = Snap("gone")
    /\ setup = "idle"
    /\ pc = [d \in Devices |-> "pending"]
    /\ data = [d \in Devices |-> None]
    /\ pending = [d \in Devices |-> FALSE]
    /\ accumulated_wh = [d \in Devices |-> 0]
    /\ last_report_end = [d \in Devices |-> None]
    /\ value = [d \in Devices |-> None]
    /\ lastNum = [d \in Devices |-> None]
    /\ seenReport = [d \in Devices |-> FALSE]
    /\ same = [d \in Devices |-> FALSE]
    /\ appliedSeq = [d \in Devices |-> <<>>]
    /\ pubNew = [d \in Devices |-> FALSE]
    /\ pubAdds = [d \in Devices |-> 0]
    /\ attrs = [d \in Devices |-> None]
    /\ obsLog = [d \in Devices |-> <<>>]
    /\ lastOp = Op("Init", "d1", NoPre)

\* The sensor platform, set up for the one config entry.
Init ==
    /\ scenario = FALSE
    /\ owned = {"d1"}
    /\ inputs = LiveSnapshots
    /\ InitSensor
    /\ flows = [f \in Flows |-> IF f = 1 THEN "create_entry" ELSE "idle"]
    /\ entries = 1

Next ==
    \/ \E rt \in {"none", "nodict", "ok"} : ProviderRuntime(rt)
    \/ \E d \in Devices : \E snap \in inputs : ProviderDevice(d, snap)
    \/ SetupBegin
    \/ \E d \in Devices : SetupDevice(d)
    \/ \E d \in Devices : FirstRefresh(d)
    \/ SetupFinish
    \/ \E d \in Devices : Tick(d)
    \/ \E d \in Devices : Observe(d)

Spec == Init /\ [][Next]_vars

\* The config flows of a fresh installation.
InitFlow ==
    /\ scenario = FALSE
    /\ owned = {"d1"}
    /\ inputs = LiveSnapshots
    /\ InitSensor
    /\ flows = [f \in Flows |-> "idle"]
    /\ entries = 0

NextFlow ==
    \/ \E f \in Flows : StepUserForm(f)
    \/ \E f \in Flows : StepUserSubmit(f)

SpecFlow == InitFlow /\ [][NextFlow]_vars

\* The sensor platform with every read of native_value logged.
InitLog ==
    /\ scenario = TRUE
    /\ owned = {"d1"}
    /\ inputs = ScenarioSnapshots
    /\ InitSensor
    /\ flows = [f \in Flows |-> IF f = 1 THEN "create_entry" ELSE "idle"]
    /\ entries = 1

SpecLog == InitLog /\ [][Next]_vars

\* The sensor platform of a device whose windows follow outages.
InitWindows ==
    /\ scenario = FALSE
    /\ owned = {"d1"}
    /\ inputs = WindowSnapshots
    /\ InitSensor
    /\ flows = [f \in Flows |-> IF f = 1 THEN "create_entry" ELSE "idle"]
    /\ entries = 1

NextAttrs ==
    \/ Next
    \/ \E d \in Devices : ReadAttributes(d)

\* The reads of extra_state_attributes among the other steps.
SpecAttrs == InitWindows /\ [][NextAttrs]_vars

\* The coordinator refreshes every SCAN_INTERVAL while the sensor listens, and
\* the sensor's state is written after every refresh.
Fairness ==
    \A d \in Devices : WF_vars(Tick(d)) /\ WF_vars(Observe(d))

SpecFair == InitWindows /\ [][Next]_vars /\ Fairness

\* The sensor platform of an installation with two devices.
InitMulti ==
    /\ scenario = FALSE
    /\ owned = Devices
    /\ inputs = PairSnapshots
    /\ InitSensor
    /\ flows = [f \in Flows |-> IF f = 1 THEN "create_entry" ELSE "idle"]
    /\ entries = 1

\* The steps of the two devices, the provider's runtime data staying as it is.
NextMulti ==
    \/ \E d \in Devices : \E snap \in inputs : ProviderDevice(d, snap)
    \/ SetupBegin
    \/ \E d \in Devices : SetupDevice(d)
    \/ \E d \in Devices : FirstRefresh(d)
    \/ SetupFinish
    \/ \E d \in Devices : Tick(d)
    \/ \E d \in Devices : Observe(d)

SpecMulti == InitMulti /\ [][NextMulti]_vars

----------------------------------------------------------------------------
(* Properties. *)

\* The last step was a read of native_value of device d: data[d] is the report
\* it read, value[d] what it returned, lastOp.pre the sensor as it found it.
Observed(d) == lastOp.op = "Observe" /\ lastOp.dev = d

\* The report just read, when it is not empty.
ReadReport(d) == data[d][1]
ReadNonEmpty(d) == data[d] # None /\ DOMAIN data[d][1] # {}

\* wh fifths of a watt-hour as kWh to three decimals: the thousandth nearest.
Kwh3(wh) == CHOOSE k \in 0..wh : 5 * k - wh \in -2..2

\* C1: every number native_value returns is at least the number it returned
\* before (unknown is not a number, and is returned only while nothing has
\* been accumulated).
C1_Monotonic ==
    \A d \in Devices :
        (Observed(d) /\ value[d] # None /\ lastOp.pre.num # None)
            => value[d][1] >= lastOp.pre.num[1]

C1_Witness ==
    \E d \in Devices :
        Observed(d) /\ lastOp.pre.num = Some(100) /\ value[d] = Some(150)

\* C2 as stated: no end token is added to accumulated_wh more than once,
\* whatever the order of the observations.
C2_AtMostOncePerWindow ==
    \A d \in Devices :
        \A i, j \in DOMAIN appliedSeq[d] :
            i # j => appliedSeq[d][i] # appliedSeq[d][j]

\* C2 amended: a report whose end token is that of the report added last is
\* not added, so no end token is added twice in a row.
C2_NoRepeatOfLastAdded ==
    \A d \in Devices :
        /\ \A i \in 1..(Len(appliedSeq[d]) - 1) :
               appliedSeq[d][i] # appliedSeq[d][i + 1]
        /\ (Observed(d) /\ ReadNonEmpty(d) /\ HasEnd(ReadReport(d))
              /\ Some(ReadReport(d)["end"]) = lastOp.pre.lre)
               => accumulated_wh[d] = lastOp.pre.acc

C2_Witness ==
    \E d \in Devices :
        /\ Observed(d) /\ ReadNonEmpty(d)
        /\ appliedSeq[d] = <<"t1", "t2">>
        /\ HasEnd(ReadReport(d)) /\ ReadReport(d)["end"] = "t2"
        /\ PositiveDelta(ReadReport(d))
        /\ lastOp.pre.lre = Some("t2")
        /\ accumulated_wh[d] = lastOp.pre.acc

\* C3: a read of native_value that finds the report the previous read found
\* leaves accumulated_wh and last_report_end as they were and returns what the
\* previous read returned.
C3_DedupIdempotent ==
    \A d \in Devices :
        (Observed(d) /\ lastOp.pre.same /\ ReadNonEmpty(d))
            => /\ accumulated_wh[d] = lastOp.pre.acc
               /\ last_report_end[d] = lastOp.pre.lre
               /\ value[d] = lastOp.pre.val

C3_Witness ==
    \E d \in Devices :
        /\ Observed(d) /\ lastOp.pre.same /\ ReadNonEmpty(d)
        /\ HasEnd(ReadReport(d)) /\ PositiveDelta(ReadReport(d))
        /\ last_report_end[d] = Some(ReadReport(d)["end"])
        /\ accumulated_wh[d] = ReadReport(d)["deltaEnergy"].v
        /\ value[d] = lastOp.pre.val

\* The sum of deltaEnergy over the reports, from the i-th on, that have an end
\* token other than that of the report added last and a deltaEnergy above zero.
RECURSIVE ExpectedWh(_, _, _)
ExpectedWh(reports, i, lastEnd) ==
    IF i > Len(reports) THEN 0
    ELSE LET r == reports[i]
         IN  IF HasEnd(r) /\ Some(r["end"]) # lastEnd /\ PositiveDelta(r)
             THEN r["deltaEnergy"].v + ExpectedWh(reports, i + 1, Some(r["end"]))
             ELSE ExpectedWh(reports, i + 1, lastEnd)

\* C4: after any sequence of non-empty reports read from the initial state,
\* accumulated_wh is the sum of deltaEnergy over the reports with an end token
\* other than that of the report added last and a deltaEnergy above zero, and
\* the value returned is that sum in kWh to three decimals.
C4_SumOfNewWindows ==
    \A d \in Devices :
        \A n \in 1..Len(obsLog[d]) :
            (\A j \in 1..n : obsLog[d][j].report # None
                             /\ DOMAIN obsLog[d][j].report[1] # {})
            => LET reports == [j \in 1..n |-> obsLog[d][j].report[1]]
                   sum == ExpectedWh(reports, 1, None)
               IN  /\ obsLog[d][n].wh = sum
                   /\ obsLog[d][n].ret = Some(Kwh3(sum))
                   /\ n = Len(obsLog[d]) => accumulated_wh[d] = sum

C4_Witness ==
    \E d \in Devices :
        /\ Len(obsLog[d]) = 3
        /\ obsLog[d][1].report = Some(Rep(Some(Num(0)), Some(Num(Wh(100))), Some("t1")))
        /\ obsLog[d][2].report = obsLog[d][1].report
        /\ obsLog[d][3].report = Some(Rep(Some(Num(0)), Some(Num(Wh(50))), Some("t2")))
        /\ <<obsLog[d][1].wh, obsLog[d][2].wh, obsLog[d][3].wh>>
               = <<Wh(100), Wh(100), Wh(150)>>
        /\ <<obsLog[d][1].ret, obsLog[d][2].ret, obsLog[d][3].ret>>
               = <<Some(100), Some(100), Some(150)>>

\* C5: a read of native_value that finds a report whose deltaEnergy is zero,
\* absent or not a number changes neither accumulated_wh nor last_report_end.
C5_ZeroDeltaNoOp ==
    \A d \in Devices :
        (Observed(d) /\ ReadNonEmpty(d) /\ NoDelta(ReadReport(d)))
            => /\ accumulated_wh[d] = lastOp.pre.acc
               /\ last_report_end[d] = lastOp.pre.lre

C5_Witness ==
    \E d \in Devices :
        /\ Observed(d) /\ ReadNonEmpty(d) /\ NoDelta(ReadReport(d))
        /\ HasEnd(ReadReport(d))
        /\ Some(ReadReport(d)["end"]) # lastOp.pre.lre
        /\ lastOp.pre.acc > 0
        /\ accumulated_wh[d] = lastOp.pre.acc

\* C6: a read of native_value that finds no report after a total above zero
\* was accumulated changes neither accumulated_wh nor last_report_end and
\* returns that total in kWh, not unknown.
C6_EmptyKeepsTotal ==
    \A d \in Devices :
        (Observed(d) /\ ~ReadNonEmpty(d) /\ lastOp.pre.acc > 0)
            => /\ accumulated_wh[d] = lastOp.pre.acc
               /\ last_report_end[d] = lastOp.pre.lre
               /\ value[d] = Some(Kwh3(lastOp.pre.acc))

C6_Witness ==
    \E d \in Devices :
        /\ Observed(d) /\ data[d] = Some(EmptyDict)
        /\ lastOp.pre.acc = Wh(150)
        /\ value[d] = Some(150)

\* C7: until native_value has read a non-empty report its value is unknown;
\* the first non-empty report it reads, when its deltaEnergy is zero or
\* absent, makes the value 0.0.
C7_UnknownThenZero ==
    \A d \in Devices :
        /\ ~seenReport[d] => value[d] = None
        /\ (Observed(d) /\ ReadNonEmpty(d) /\ ~lastOp.pre.had
              /\ NoDelta(ReadReport(d)))
               => value[d] = Some(0)

C7_Witness ==
    \E d \in Devices :
        /\ Observed(d) /\ ReadNonEmpty(d) /\ ~lastOp.pre.had
        /\ "deltaEnergy" \notin DOMAIN ReadReport(d)
        /\ lastOp.pre.val = None
        /\ value[d] = Some(0)

\* The report's energy is not a number (absent included) or exactly zero.
EnergyStuck(r) == "energy" \notin DOMAIN r \/ ~r["energy"].num \/ r["energy"].v = 0

\* C8: _needs_delta_fix is true exactly of the reports whose energy is not a
\* number or is zero and that hold a deltaEnergy key, whatever its value.
C8_NeedsDeltaFix ==
    /\ NeedsDeltaFix(Rep(Some(Num(0)), Some(Num(Wh(5))), Some("b")))
    /\ ~NeedsDeltaFix(Rep(Some(Num(Wh(120))), Some(Num(Wh(5))), Some("b")))
    /\ ~NeedsDeltaFix(Rep(Some(Num(0)), None, None))
    /\ \A d \in Devices :
           (lastOp.op = "SetupDevice" /\ lastOp.dev = d /\ snapshot[d].kind = "report")
               => (pc[d] = "refresh"
                      <=> (EnergyStuck(snapshot[d].value)
                           /\ "deltaEnergy" \in DOMAIN snapshot[d].value))

C8_Witness ==
    \E d \in Devices :
        /\ lastOp.op = "SetupDevice" /\ lastOp.dev = d
        /\ snapshot[d].kind = "report"
        /\ snapshot[d].value = Rep(Some(Num(0)), Some(Num(0)), Some("t1"))
        /\ pc[d] = "refresh"

\* The last step was a refresh of the coordinator of device d.
Refreshed(d) == lastOp.op \in {"Tick", "FirstRefresh"} /\ lastOp.dev = d

\* C9: a refresh publishes the report dict of the provider's current snapshot,
\* and the empty dict when the provider is not ready, the device is gone or the
\* snapshot holds no report dict; it never keeps the report cached before.
C9_TickPublishesCurrentOrEmpty ==
    \A d \in Devices :
        Refreshed(d)
            => data[d] = Some(IF runtime = "ok" /\ snapshot[d].kind = "report"
                              THEN snapshot[d].value ELSE EmptyDict)

C9_Witness ==
    \E d \in Devices :
        /\ lastOp.op = "Tick" /\ lastOp.dev = d
        /\ lastOp.pre.had
        /\ runtime # "ok" \/ snapshot[d].kind # "report"
        /\ data[d] = Some(EmptyDict)

\* C10: there is at most one config entry, and a submitted step that finds
\* one ends in an abort and creates none.
C10_SingleEntry ==
    /\ entries <= 1
    /\ Cardinality({f \in Flows : flows[f] = "create_entry"}) = entries
    /\ (lastOp.op = "StepUserSubmit" /\ lastOp.pre.entries > 0)
           => flows[lastOp.dev] = "abort" /\ entries = lastOp.pre.entries

C10_Witness ==
    /\ lastOp.op = "StepUserSubmit"
    /\ lastOp.pre.entries = 1
    /\ flows[lastOp.dev] = "abort"
    /\ entries = 1

----------------------------------------------------------------------------
\* C11: every step that changes accumulated_wh or last_report_end of a device
\* is a read of native_value on a non-empty report that has an end token other
\* than last_report_end and a numeric deltaEnergy above zero; the step adds
\* exactly that deltaEnergy to accumulated_wh and makes the report's end token
\* last_report_end.
C11_OnlyNewWindowsChangeTotal ==
    [][\A d \in Devices :
          (\/ accumulated_wh'[d] # accumulated_wh[d]
           \/ last_report_end'[d] # last_report_end[d])
              => /\ lastOp'.op = "Observe" /\ lastOp'.dev = d
                 /\ ReadNonEmpty(d)
                 /\ NewWindow(ReadReport(d), last_report_end[d])
                 /\ accumulated_wh'[d]
                        = accumulated_wh[d] + ReadReport(d)["deltaEnergy"].v
                 /\ last_report_end'[d] = Some(ReadReport(d)["end"])]_vars

C11_Witness ==
    \E d \in Devices :
        /\ Observed(d) /\ ReadNonEmpty(d)
        /\ lastOp.pre.lre = Some("t1")
        /\ last_report_end[d] = Some("t2")
        /\ accumulated_wh[d] = lastOp.pre.acc + Wh(50)

----------------------------------------------------------------------------
----------------------------------------------------------------------------
\* C13 as claimed: once native_value has read a non-empty report, no later
\* read returns unknown.
C13_NumberOnceSeen ==
    \A d \in Devices :
        (Observed(d) /\ lastOp.pre.had) => value[d] # None

\* C13: a read of a non-empty report, and every read once accumulated_wh is
\* above zero, returns the total as a number; a read that returns unknown
\* after a non-empty report was read is a read of an empty report with
\* accumulated_wh still 0.
C13_NumberOnceAdded ==
    \A d \in Devices :
        Observed(d)
            => /\ (ReadNonEmpty(d) \/ lastOp.pre.acc > 0)
                      => value[d] = Some(Kwh3(accumulated_wh[d]))
               /\ (lastOp.pre.had /\ value[d] = None)
                      => ~ReadNonEmpty(d) /\ accumulated_wh[d] = 0

C13_Witness ==
    \E d \in Devices :
        /\ Observed(d) /\ lastOp.pre.had
        /\ lastOp.pre.val = None
        /\ ReadNonEmpty(d)
        /\ value[d] = Some(0)

----------------------------------------------------------------------------
\* C14: async_setup_entry goes on to create a sensor only for a device whose
\* report is present, has an energy that is not a number or is zero, and holds
\* a deltaEnergy; a created sensor that reads a report with a non-zero energy,
\* a new end token and a deltaEnergy above zero adds that deltaEnergy, as it
\* does for a report with energy 0.
C14_GateOnlyAtSetup ==
    \A d \in Devices :
        /\ (lastOp.op = "SetupDevice" /\ lastOp.dev = d /\ pc[d] = "refresh")
               => /\ snapshot[d].kind = "report"
                  /\ EnergyStuck(snapshot[d].value)
                  /\ "deltaEnergy" \in DOMAIN snapshot[d].value
        /\ (/\ Observed(d) /\ ReadNonEmpty(d)
            /\ NewWindow(ReadReport(d), lastOp.pre.lre))
               => /\ accumulated_wh[d]
                         = lastOp.pre.acc + ReadReport(d)["deltaEnergy"].v
                  /\ last_report_end[d] = Some(ReadReport(d)["end"])
                  /\ value[d] = Some(Kwh3(accumulated_wh[d]))

C14_Witness ==
    \E d \in Devices :
        /\ Observed(d)
        /\ data[d] = Some(Rep(Some(Num(Wh(120))), Some(Num(Wh(50))), Some("t1")))
        /\ lastOp.pre.lre = Some("t2")
        /\ accumulated_wh[d] = lastOp.pre.acc + Wh(50)
        /\ last_report_end[d] = Some("t1")

----------------------------------------------------------------------------
\* The totals accumulated_wh can hold in a run over WindowSnapshots.
Totals == { k * Wh(50) : k \in 0..(2 * MaxApplied) }

\* The reports of WindowSnapshots that have an end token and a deltaEnergy
\* above zero.
Windows ==
    { s.value : s \in { t \in WindowSnapshots :
                          t.kind = "report" /\ HasEnd(t.value)
                                            /\ PositiveDelta(t.value) } }

\* The provider is available and returns report r for device d.
Returns(d, r) == runtime = "ok" /\ snapshot[d] = [kind |-> "report", value |-> r]

\* Device d's coordinator publishes {} with the total at w, the provider
\* returns r again, and r is a new window.
Outage(d, r, w) ==
    /\ pc[d] = "added"
    /\ data[d] = Some(EmptyDict)
    /\ accumulated_wh[d] = w
    /\ Returns(d, r)
    /\ NewWindow(r, last_report_end[d])
    /\ Len(appliedSeq[d]) < MaxApplied

\* r has been added to the total w.
Healed(d, r, w) ==
    /\ data[d] = Some(r)
    /\ accumulated_wh[d] = w + r["deltaEnergy"].v
    /\ last_report_end[d] = Some(r["end"])

\* C15: when the coordinator publishes {} and the provider returns a report
\* with a new end token and a deltaEnergy above zero again, then, with ticks
\* and reads scheduled fairly, either the provider stops returning that report
\* or its deltaEnergy is added to the total held during the outage.
C15_OutageHeals ==
    \A d \in Devices : \A r \in Windows : \A w \in Totals :
        Outage(d, r, w) ~> (~Returns(d, r) \/ Healed(d, r, w))

C15_Witness ==
    \E d \in Devices :
        /\ lastOp.op = "Tick" /\ lastOp.dev = d /\ ~lastOp.pre.had
        /\ accumulated_wh[d] = Wh(100)
        /\ Returns(d, Rep(Some(Num(0)), Some(Num(Wh(50))), Some("t2")))
        /\ data[d] = Some(Rep(Some(Num(0)), Some(Num(Wh(50))), Some("t2")))
        /\ pubNew[d]

----------------------------------------------------------------------------
\* C16: with two devices, a refresh of one device's coordinator and a read of
\* one device's native_value leave the other device's coordinator.data,
\* accumulated_wh and last_report_end as they were.
C16_OtherDevicesUntouched ==
    [][\A d \in Devices :
          (lastOp'.dev = d /\ lastOp'.op \in {"FirstRefresh", "Tick", "Observe"})
              => \A o \in Devices \ {d} :
                     /\ data'[o] = data[o]
                     /\ accumulated_wh'[o] = accumulated_wh[o]
                     /\ last_report_end'[o] = last_report_end[o]]_vars

C16_Witness ==
    /\ Observed("d1")
    /\ lastOp.pre.acc = 0
    /\ accumulated_wh["d1"] = Wh(100) /\ last_report_end["d1"] = Some("t1")
    /\ accumulated_wh["d2"] = Wh(150) /\ last_report_end["d2"] = Some("t2")
    /\ data["d2"] = Some(Rep(Some(Num(0)), Some(Num(Wh(50))), Some("t2")))

----------------------------------------------------------------------------
\* C17: a sensor exists only on a coordinator whose first refresh is done, so
\* coordinator.data is a report or the empty dict whenever the sensor exists,
\* and at every read of native_value, the first one included.
C17_DataDefinedAtFirstRead ==
    \A d \in Devices :
        /\ pc[d] \in {"created", "added"} => data[d] # None
        /\ Observed(d) => pc[d] = "added"
        /\ \A i \in 1..Len(obsLog[d]) : obsLog[d][i].report # None

C17_Witness ==
    \E d \in Devices :
        /\ Observed(d)
        /\ Len(obsLog[d]) = 1
        /\ obsLog[d][1].report = data[d]
        /\ ReadNonEmpty(d)

----------------------------------------------------------------------------
\* The last step was a read of extra_state_attributes of device d.
ReadAttrs(d) == lastOp.op = "Attributes" /\ lastOp.dev = d

\* The accumulated_wh attribute last returned, in thousandths of a watt-hour.
AttrWh(d) == attrs[d][1][1].accumulated_wh

\* a thousandths of a watt-hour, over 1000, to three decimals: the
\* thousandth of a kWh nearest.
AttrKwh3(a) == CHOOSE k \in 0..a : 1000 * k - a \in -499..499

\* C18 as claimed: once both native_value and extra_state_attributes have been
\* read of a cached non-empty report, in either order, the accumulated_wh
\* attribute over 1000, rounded, is the value native_value returned.
C18_AgreeInAnyOrder ==
    \A d \in Devices :
        (pc[d] = "added" /\ ~pending[d] /\ ReadNonEmpty(d) /\ attrs[d] # None)
            => value[d] = Some(AttrKwh3(AttrWh(d)))

\* C18: a read of extra_state_attributes changes neither accumulated_wh nor
\* last_report_end; of a non-empty report its accumulated_wh attribute is the
\* total at the time of the read, so it agrees with the value native_value
\* returned when native_value has read the cached report before, and is the
\* total without that report when it has not.
C18_AttributesAfterValue ==
    \A d \in Devices :
        ReadAttrs(d)
            => /\ accumulated_wh[d] = lastOp.pre.acc
               /\ last_report_end[d] = lastOp.pre.lre
               /\ attrs[d] # None
               /\ ReadNonEmpty(d) <=> attrs[d][1] # None
               /\ ReadNonEmpty(d)
                      => /\ AttrWh(d) = 200 * lastOp.pre.acc
                         /\ ~pending[d] => value[d] = Some(AttrKwh3(AttrWh(d)))

C18_Witness ==
    \E d \in Devices :
        /\ ReadAttrs(d) /\ ~pending[d]
        /\ data[d] = Some(Rep(Some(Num(0)), Some(Num(Wh(50))), Some("t2")))
        /\ AttrWh(d) = 200 * Wh(150)
        /\ value[d] = Some(150)

----------------------------------------------------------------------------
\* C19: last_report_end is absent exactly when accumulated_wh is 0, and when
\* present it is the end token of the report added last.
C19_LastEndIffTotal ==
    \A d \in Devices :
        /\ last_report_end[d] = None <=> accumulated_wh[d] = 0
        /\ last_report_end[d] # None
               => /\ appliedSeq[d] # <<>>
                  /\ last_report_end[d] = Some(appliedSeq[d][Len(appliedSeq[d])])

C19_Witness ==
    \E d \in Devices :
        /\ appliedSeq[d] = <<"t1", "t2">>
        /\ last_report_end[d] = Some("t2")
        /\ accumulated_wh[d] = Wh(150)

====
